---- MODULE Spec2Model ----
(***************************************************************************)
(* Display_EPD_W21_spi.h: pin assignments, GPIO macros and the two byte    *)
(* transfer entry points of the e-paper SPI glue for ESP32-C6 + DESPI-C73. *)
(*                                                                         *)
(* The GPIO port is a function from pin number to electrical level.  The   *)
(* macros of the header are one digitalWrite / digitalRead each.  A mock   *)
(* GPIO/SPI harness is part of the state: it records the operation that    *)
(* ran last (op), the pin that operation handed to the digital I/O call    *)
(* (touched), the value it produced (ret), the macro that last targeted    *)
(* each output role (last) and the byte on the SPI bus (bus).              *)
(***************************************************************************)
EXTENDS Integers, FiniteSets, Sequences, TLC

\* ---------------------------------------------------------------- bounds
\* Number of GPIO lines of the modelled port: pins 0 .. NumGPIO-1.
NumGPIO == 8

\* unsigned char: the argument of EPD_W21_WriteCMD / EPD_W21_WriteDATA.
MaxByte == 255

Pins == 0 .. (NumGPIO - 1)
Byte == 0 .. MaxByte

\* ------------------------------------------------- Arduino logic levels
LOW == "LOW"
HIGH == "HIGH"
Level == {LOW, HIGH}
Opposite(v) == IF v = LOW THEN HIGH ELSE LOW

\* --------------------------------------------------- USER-DEFINED PINS
EPD_CS_PIN == 7
\* An accidental edit of the D/C assignment (GPIO 4 instead of GPIO 3).
EPD_DC_PIN_Edited == EPD_CS_PIN - 3
EPD_DC_PIN == 3
EPD_RST_PIN == 0
\* BUSY assigned the line that RES already uses.
EPD_BUSY_PIN_Shared == EPD_RST_PIN
EPD_BUSY_PIN == 1

\* The GPIO line of each role.
RolePin ==
    [CS |-> EPD_CS_PIN, DC |-> EPD_DC_PIN, RST |-> EPD_RST_PIN,
     BUSY |-> EPD_BUSY_PIN]

VARIABLES
    level,      \* level[p]: electrical level of GPIO p
    pc,         \* position of the single thread of control
    fn,         \* the byte transfer function being executed, "none" outside
    arg,        \* <<b>>: argument of the running function, <<>> outside
    bus,        \* <<b>>: byte being shifted out on the SPI bus, <<>> if idle
    op,         \* harness: name of the operation performed by the last step
    touched,    \* harness: <<p>> the pin given to digitalWrite/digitalRead
                \*          by the last step, <<>> if it made no such call
    ret,        \* harness: value produced by the last step, "void" if none
    last        \* harness: last[role] = the macro that most recently
                \*          targeted the role's pin, "none" if none did

vars == <<level, pc, fn, arg, bus, op, touched, ret, last>>

Roles == {"CS", "DC", "RST"}

\* ------------------------------------------------------ digital I/O calls
\* digitalWrite(pin, val): drive one GPIO line; returns nothing.
digitalWrite(pin, val) ==
    /\ level' = [level EXCEPT ![pin] = val]
    /\ touched' = <<pin>>
    /\ ret' = "void"

\* digitalRead(pin): the current level of one GPIO line; no effect on it.
digitalRead(pin) ==
    /\ ret' = level[pin]
    /\ touched' = <<pin>>
    /\ UNCHANGED level

\* -------------------------------------------- MACROS FOR SPI CONTROL
\* Slips a hand edit of the macro block could make: a level copied from the
\* neighbouring line, a pin name copied from another role.
EPD_W21_CS_0_WrongLevel == digitalWrite(EPD_CS_PIN, HIGH)
EPD_W21_DC_0_WrongLevel == digitalWrite(EPD_DC_PIN, HIGH)
EPD_W21_DC_1_WrongLevel == digitalWrite(EPD_DC_PIN, LOW)
EPD_W21_RST_0_WrongLevel == digitalWrite(EPD_RST_PIN, HIGH)
EPD_W21_RST_1_WrongPin == digitalWrite(EPD_BUSY_PIN, HIGH)
isEPD_W21_BUSY_WrongPin == digitalRead(EPD_RST_PIN)

EPD_W21_CS_0 == digitalWrite(EPD_CS_PIN, LOW)
EPD_W21_CS_1 == digitalWrite(EPD_CS_PIN, HIGH)
EPD_W21_DC_0 == digitalWrite(EPD_DC_PIN, LOW)
EPD_W21_DC_1 == digitalWrite(EPD_DC_PIN, HIGH)
EPD_W21_RST_0 == digitalWrite(EPD_RST_PIN, LOW)
EPD_W21_RST_1 == digitalWrite(EPD_RST_PIN, HIGH)
isEPD_W21_BUSY == digitalRead(EPD_BUSY_PIN)

\* The names of the header's macros, as the harness logs them in op.
WriteMacros ==
    {"EPD_W21_CS_0", "EPD_W21_CS_1", "EPD_W21_DC_0", "EPD_W21_DC_1",
     "EPD_W21_RST_0", "EPD_W21_RST_1"}
\* The macro block cut after its sixth line.
ReadMacros_Dropped == {}
ReadMacros == {"isEPD_W21_BUSY"}
GPIOPrimitives == WriteMacros \cup ReadMacros

\* Harness bookkeeping of a macro expansion: its name, and the role whose
\* pin it targets ("none" for the read).
Log(name, role) ==
    /\ op' = name
    /\ last' = IF role \in Roles THEN [last EXCEPT ![role] = name] ELSE last

\* ------------------------------------------- the macros used by a caller
Idle == pc = "idle"

CS_0 == Idle /\ EPD_W21_CS_0 /\ Log("EPD_W21_CS_0", "CS")
             /\ UNCHANGED <<pc, fn, arg, bus>>
CS_1 == Idle /\ EPD_W21_CS_1 /\ Log("EPD_W21_CS_1", "CS")
             /\ UNCHANGED <<pc, fn, arg, bus>>
DC_0 == Idle /\ EPD_W21_DC_0 /\ Log("EPD_W21_DC_0", "DC")
             /\ UNCHANGED <<pc, fn, arg, bus>>
DC_1 == Idle /\ EPD_W21_DC_1 /\ Log("EPD_W21_DC_1", "DC")
             /\ UNCHANGED <<pc, fn, arg, bus>>
RST_0 == Idle /\ EPD_W21_RST_0 /\ Log("EPD_W21_RST_0", "RST")
              /\ UNCHANGED <<pc, fn, arg, bus>>
RST_1 == Idle /\ EPD_W21_RST_1 /\ Log("EPD_W21_RST_1", "RST")
              /\ UNCHANGED <<pc, fn, arg, bus>>
ReadBusy == Idle /\ isEPD_W21_BUSY /\ Log("isEPD_W21_BUSY", "none")
                 /\ UNCHANGED <<pc, fn, arg, bus>>

\* The display controller drives the BUSY line; the host only reads it.
BusyChange ==
    /\ level' = [level EXCEPT ![EPD_BUSY_PIN] = Opposite(level[EPD_BUSY_PIN])]
    /\ op' = "BusyChange"
    /\ touched' = <<>>
    /\ ret' = "void"
    /\ UNCHANGED <<pc, fn, arg, bus, last>>

\* -------------------------------------------------------- SPI FUNCTIONS
\* void EPD_W21_WriteCMD(unsigned char command);
\* void EPD_W21_WriteDATA(unsigned char data);
\* Bodies: assert chip-select, set the data/command line (LOW selects
\* command, HIGH selects data), shift the byte out, deassert chip-select.
Call(name, b) ==
    /\ Idle
    /\ pc' = "cs"
    /\ fn' = name
    /\ arg' = <<b>>
    /\ op' = name
    /\ touched' = <<>>
    /\ ret' = "void"
    /\ UNCHANGED <<level, bus, last>>

EPD_W21_WriteCMD == \E command \in Byte : Call("EPD_W21_WriteCMD", command)
EPD_W21_WriteDATA == \E data \in Byte : Call("EPD_W21_WriteDATA", data)

AssertCS ==
    /\ pc = "cs"
    /\ EPD_W21_CS_0 /\ Log("EPD_W21_CS_0", "CS")
    /\ pc' = "dc"
    /\ UNCHANGED <<fn, arg, bus>>

SelectCommand ==
    /\ pc = "dc" /\ fn = "EPD_W21_WriteCMD"
    /\ EPD_W21_DC_0 /\ Log("EPD_W21_DC_0", "DC")
    /\ pc' = "spi"
    /\ UNCHANGED <<fn, arg, bus>>

SelectData ==
    /\ pc = "dc" /\ fn = "EPD_W21_WriteDATA"
    /\ EPD_W21_DC_1 /\ Log("EPD_W21_DC_1", "DC")
    /\ pc' = "spi"
    /\ UNCHANGED <<fn, arg, bus>>

\* The byte transfer: the byte is on the bus from its first to its last bit.
TransferBegin ==
    /\ pc = "spi"
    /\ bus' = arg
    /\ pc' = "shift"
    /\ op' = "SPI"
    /\ touched' = <<>>
    /\ ret' = "void"
    /\ UNCHANGED <<level, fn, arg, last>>

TransferEnd ==
    /\ pc = "shift"
    /\ bus' = <<>>
    /\ pc' = "end"
    /\ op' = "SPI"
    /\ touched' = <<>>
    /\ ret' = "void"
    /\ UNCHANGED <<level, fn, arg, last>>

DeassertCS ==
    /\ pc = "end"
    /\ EPD_W21_CS_1 /\ Log("EPD_W21_CS_1", "CS")
    /\ pc' = "idle"
    /\ fn' = "none"
    /\ arg' = <<>>
    /\ UNCHANGED bus

\* ------------------------------------------------------- specifications
Quiet ==
    /\ pc = "idle"
    /\ fn = "none"
    /\ arg = <<>>
    /\ bus = <<>>
    /\ op = "none"
    /\ touched = <<>>
    /\ ret = "void"
    /\ last = [r \in Roles |-> "none"]

\* Any pin state: every line of the port at either level.
Init == level \in [Pins -> Level] /\ Quiet

MacroStep ==
    \/ CS_0 \/ CS_1 \/ DC_0 \/ DC_1 \/ RST_0 \/ RST_1
    \/ ReadBusy
    \/ BusyChange

Next == MacroStep

\* The header's macros, applied in any order, from any pin state.
Spec == Init /\ [][Next]_vars

RolePins == {RolePin[r] : r \in DOMAIN RolePin}

\* The four wired lines at either level, the unwired lines of the port low.
InitSPI ==
    /\ level \in {l \in [Pins -> Level] : \A p \in Pins \ RolePins : l[p] = LOW}
    /\ Quiet

TransferStep ==
    \/ EPD_W21_WriteCMD \/ EPD_W21_WriteDATA
    \/ AssertCS \/ SelectCommand \/ SelectData
    \/ TransferBegin \/ TransferEnd
    \/ DeassertCS

NextSPI == MacroStep \/ TransferStep

\* A driver that mixes the macros with calls of the two transfer functions.
SpecSPI == InitSPI /\ [][NextSPI]_vars

TypeOK ==
    /\ level \in [Pins -> Level]
    /\ pc \in {"idle", "cs", "dc", "spi", "shift", "end"}
    /\ fn \in {"none", "EPD_W21_WriteCMD", "EPD_W21_WriteDATA"}
    /\ arg \in {<<>>} \cup {<<b>> : b \in Byte}
    /\ bus \in {<<>>} \cup {<<b>> : b \in Byte}
    /\ ret \in Level \cup {"void"}
    /\ last \in [Roles -> WriteMacros \cup {"none"}]

\* ================================================================ claims
\* The level a macro is documented to drive: the _0 macros assert (LOW),
\* the _1 macros deassert (HIGH).
Documented(m) ==
    IF m \in {"EPD_W21_CS_0", "EPD_W21_DC_0", "EPD_W21_RST_0"} THEN LOW ELSE HIGH

InTransfer == bus # <<>>

\* C1: in every call of EPD_W21_WriteCMD and EPD_W21_WriteDATA, with any
\* byte 0..255, CS is low when the byte transfer starts, the byte (the
\* call's argument) is on the bus only while CS is low, and when the call
\* returns the transfer has ended and CS is high.
C1_ChipSelectFramesTransfer ==
    /\ [](InTransfer => level[EPD_CS_PIN] = LOW /\ bus = arg /\ fn # "none")
    /\ [][~InTransfer /\ InTransfer' => level[EPD_CS_PIN] = LOW]_vars
    /\ [][fn # "none" /\ fn' = "none"
            => ~InTransfer' /\ level'[EPD_CS_PIN] = HIGH]_vars

C1_Witness ==
    /\ fn = "EPD_W21_WriteCMD"
    /\ bus = <<MaxByte>>
    /\ level[EPD_CS_PIN] = LOW

\* C2: in every call, the D/C line is at the level of the call's semantic
\* (LOW, command mode, for WriteCMD; HIGH, data mode, for WriteDATA) from
\* before the transfer begins until the transfer has ended; the two levels
\* are opposite.
C2_DataCommandLevel ==
    /\ pc \in {"spi", "shift", "end"} /\ fn = "EPD_W21_WriteCMD"
         => level[EPD_DC_PIN] = LOW
    /\ pc \in {"spi", "shift", "end"} /\ fn = "EPD_W21_WriteDATA"
         => level[EPD_DC_PIN] = HIGH
    /\ InTransfer => pc = "shift"

C2_Witness ==
    /\ fn = "EPD_W21_WriteDATA"
    /\ bus = <<1>>
    /\ level[EPD_DC_PIN] = HIGH

\* C3: from any pin state, right after an assert macro its target pin is
\* LOW and right after a deassert macro the same pin is HIGH, for CS, D/C
\* and RST.
C3_AssertLowDeassertHigh ==
    /\ op = "EPD_W21_CS_0" => level[EPD_CS_PIN] = LOW
    /\ op = "EPD_W21_CS_1" => level[EPD_CS_PIN] = HIGH
    /\ op = "EPD_W21_DC_0" => level[EPD_DC_PIN] = LOW
    /\ op = "EPD_W21_DC_1" => level[EPD_DC_PIN] = HIGH
    /\ op = "EPD_W21_RST_0" => level[EPD_RST_PIN] = LOW
    /\ op = "EPD_W21_RST_1" => level[EPD_RST_PIN] = HIGH

C3_Witness ==
    /\ op = "EPD_W21_RST_0"
    /\ last = [CS |-> "EPD_W21_CS_1", DC |-> "EPD_W21_DC_1",
               RST |-> "EPD_W21_RST_0"]
    /\ level[EPD_RST_PIN] = LOW

\* C4: a step that evaluates isEPD_W21_BUSY yields the level the BUSY pin
\* had when it was evaluated, reads the configured pin, and leaves the level
\* of every pin (CS, D/C, RST and BUSY among them) as it was.
C4_BusyReadIsPure ==
    [][op' = "isEPD_W21_BUSY"
         => /\ ret' = level[EPD_BUSY_PIN]
            /\ touched' = <<EPD_BUSY_PIN>>
            /\ level' = level]_vars

C4_Witness ==
    /\ op = "isEPD_W21_BUSY"
    /\ ret = HIGH
    /\ level[EPD_BUSY_PIN] = HIGH
    /\ level[EPD_RST_PIN] = LOW

\* C5: chip-select is GPIO 7, data/command GPIO 3, reset GPIO 0 and busy
\* GPIO 1, and in every state the line a macro hands to the digital I/O
\* call is the documented one of its role.
C5_DocumentedPins ==
    /\ EPD_CS_PIN = 7 /\ EPD_DC_PIN = 3 /\ EPD_RST_PIN = 0 /\ EPD_BUSY_PIN = 1
    /\ op \in {"EPD_W21_CS_0", "EPD_W21_CS_1"} => touched = <<7>>
    /\ op \in {"EPD_W21_DC_0", "EPD_W21_DC_1"} => touched = <<3>>
    /\ op \in {"EPD_W21_RST_0", "EPD_W21_RST_1"} => touched = <<0>>
    /\ op = "isEPD_W21_BUSY" => touched = <<1>>

C5_Witness ==
    /\ op = "EPD_W21_DC_1"
    /\ touched = <<3>>
    /\ last["CS"] # "none" /\ last["RST"] # "none"

\* C6: the four pin constants are pairwise distinct, and the line touched
\* by any macro belongs to exactly one role.
C6_PinsDistinct ==
    /\ Cardinality(RolePins) = 4
    /\ touched # <<>>
         => Cardinality({r \in DOMAIN RolePin : touched = <<RolePin[r]>>}) = 1

C6_Witness ==
    /\ op = "isEPD_W21_BUSY"
    /\ level[EPD_BUSY_PIN] = HIGH /\ level[EPD_RST_PIN] = LOW
    /\ level[EPD_CS_PIN] = HIGH /\ level[EPD_DC_PIN] = LOW
    /\ \A r \in Roles : last[r] # "none"

\* The names the harness logs for a step.
OpNames ==
    GPIOPrimitives \cup
    {"BusyChange", "SPI", "EPD_W21_WriteCMD", "EPD_W21_WriteDATA"}

\* The operations a caller can perform on a GPIO line through the header:
\* the steps available to it that make a digital I/O call.
Exposed ==
    {m \in OpNames : ENABLED (MacroStep /\ op' = m /\ touched' # <<>>)}

\* C7 as stated: the GPIO control primitives the header exposes are exactly
\* six operations.
C7_SixPrimitives == Idle => Cardinality(Exposed) = 6

\* C7 amended: the GPIO control primitives the header exposes are exactly
\* seven macros, six that write a pin (assert/deassert of CS, D/C, RST) and
\* one that reads the busy line, and every operation a caller performs on a
\* pin is one of them.
C7_SevenPrimitives ==
    /\ Idle => Exposed = GPIOPrimitives /\ Cardinality(Exposed) = 7
    /\ Cardinality(WriteMacros) = 6
    /\ Cardinality(ReadMacros) = 1
    /\ op \in GPIOPrimitives \cup {"none", "BusyChange"}
    /\ op \in WriteMacros <=> (touched # <<>> /\ ret = "void")
    /\ op \in ReadMacros <=> ret \in Level

C7_Witness ==
    /\ op = "isEPD_W21_BUSY"
    /\ ret = LOW
    /\ last = [CS |-> "EPD_W21_CS_0", DC |-> "EPD_W21_DC_0",
               RST |-> "EPD_W21_RST_1"]

\* The pins a step changed the level of.
Changed == {p \in Pins : level'[p] # level[p]}

\* C8: a step of a CS macro changes no pin but the CS pin, a step of a D/C
\* macro none but the D/C pin, a step of a RST macro none but the RST pin.
C8_SinglePin ==
    [][/\ op' \in {"EPD_W21_CS_0", "EPD_W21_CS_1"}
            => Changed \subseteq {EPD_CS_PIN}
       /\ op' \in {"EPD_W21_DC_0", "EPD_W21_DC_1"}
            => Changed \subseteq {EPD_DC_PIN}
       /\ op' \in {"EPD_W21_RST_0", "EPD_W21_RST_1"}
            => Changed \subseteq {EPD_RST_PIN}]_vars

C8_Witness ==
    /\ op = "EPD_W21_RST_1"
    /\ level[EPD_RST_PIN] = HIGH
    /\ level[EPD_BUSY_PIN] = LOW
    /\ level[EPD_CS_PIN] = LOW /\ level[EPD_DC_PIN] = LOW

\* C9: after any sequence of macros each output pin is at the level of the
\* most recent macro that targeted it, a pin no macro targeted yet keeps its
\* level across every step (so it is at its initial level), applying the
\* macro that ran last once more changes no level, and no macro writes the
\* BUSY pin.
C9_LastWriteWins ==
    /\ [](\A r \in Roles :
            last[r] # "none" => level[RolePin[r]] = Documented(last[r]))
    /\ [][\A r \in Roles :
            last'[r] = "none" => level'[RolePin[r]] = level[RolePin[r]]]_vars
    /\ [][op' = op /\ op \in GPIOPrimitives => level' = level]_vars
    /\ [](op \in WriteMacros => touched # <<EPD_BUSY_PIN>>)
    /\ [][op' \in GPIOPrimitives
            => level'[EPD_BUSY_PIN] = level[EPD_BUSY_PIN]]_vars

C9_Witness ==
    /\ last = [CS |-> "EPD_W21_CS_1", DC |-> "EPD_W21_DC_0", RST |-> "none"]
    /\ op = "EPD_W21_DC_0"
    /\ level[EPD_CS_PIN] = HIGH /\ level[EPD_DC_PIN] = LOW
    /\ level[EPD_RST_PIN] = HIGH

====
